---- MODULE Spec2Model ----
(***************************************************************************)
(* Session & Permission Gate of the pgo-web dashboard.                     *)
(*                                                                         *)
(* One client (one cookie jar) talks to the server.  The server keeps no   *)
(* session state: the signed token in the `session` cookie is the session. *)
(* Time is the wall clock in milliseconds (Date.now()).                    *)
(***************************************************************************)
EXTENDS Integers, Sequences, FiniteSets, TLC

VARIABLES
    now,        \* Date.now(), milliseconds
    jar,        \* the client's cookie jar: set of cookies, at most one named "session"
    written,    \* history: the jar as the server last left it (set / delete)
    active,     \* history: the payload the latest createSession was asked to
                \* store, as a set; empty after logout
    ret,        \* the last operation and what it returned to its caller
    nTicks,     \* clock steps taken
    env,        \* process.env.SESSION_SECRET of the server process
    sessionModule,  \* the session module: "unloaded", "loaded" or "failed"
    requests,   \* inbound requests being rendered: the cookies each one carries
    memo        \* what React's cache() holds for the memoized service functions

vars == <<now, jar, written, active, ret, nTicks, env, sessionModule, requests, memo>>

\* the state of the server process that a single call leaves alone
serverVars == <<env, sessionModule, requests, memo>>

----------------------------------------------------------------------------
(* Bounds of the exploration *)

MaxTicks == 3
MaxDays == 8

----------------------------------------------------------------------------
(* src/lib/config/constants.ts *)

\* SESSION.EXPIRY_MS
EXPIRY_MS == 5 * 60 * 60 * 1000

\* JWT.EXPIRY_STRING = '7d', which jose turns into seconds
JWT_EXPIRY_SECONDS == 7 * 24 * 60 * 60

----------------------------------------------------------------------------
(* JavaScript values *)

\* the value of an optional string field that was never set
Undefined == "undefined"

OptionalStringKeys == {"refreshToken", "userType"}

\* obj.k is `undefined`: the key is missing, or holds undefined
IsUndefined(obj, k) ==
    \/ k \notin DOMAIN obj
    \/ k \in OptionalStringKeys /\ obj[k] = Undefined

\* truthiness of a string-valued property (undefined and '' are falsy)
TruthyStr(obj, k) == ~IsUndefined(obj, k) /\ obj[k] # ""

\* truthiness of a number-valued property (undefined and 0 are falsy)
TruthyNum(obj, k) == ~IsUndefined(obj, k) /\ obj[k] # 0

\* truthiness of a boolean-valued property
TruthyBool(obj, k) == ~IsUndefined(obj, k) /\ obj[k]

\* obj.a and obj.b read the same value
SameField(a, b, k) ==
    /\ IsUndefined(a, k) <=> IsUndefined(b, k)
    /\ ~IsUndefined(a, k) => a[k] = b[k]

----------------------------------------------------------------------------
(* src/lib/definitions.ts: SessionPayload *)

SessionDataKeys ==
    {"userId", "uid", "token", "refreshToken", "username", "name", "email",
     "roles", "userType", "requirePasswordChange"}

PayloadKeys == SessionDataKeys \cup {"expiresAt"}

\* two payloads agree in every SessionPayload field
SamePayload(a, b) == \A k \in PayloadKeys : SameField(a, b, k)

----------------------------------------------------------------------------
(* Session codec: src/lib/auth/dal/session.dal.ts (jose SignJWT / jwtVerify) *)

secretKey == "SESSION_SECRET"

\* the values process.env.SESSION_SECRET can have when the server starts
Environments == {Undefined, "", secretKey}

loadSessionModule_NoCheck(e) == "loaded"

\* the top level of session.dal.ts: throws unless the secret is a non-empty string
loadSessionModule(e) ==
    IF e = Undefined \/ e = "" THEN "failed" ELSE "loaded"

\* inbound requests that can be in progress at the same time
RequestIds == {1, 2}

\* no such request is being rendered
Idle == [state |-> "idle"]

AttackerKey == "not-the-secret"

\* HMAC over the protected header and the claims, taken as collision free
Sign(key, alg, claims) == [key |-> key, alg |-> alg, claims |-> claims]

\* JSON.stringify drops the properties whose value is undefined
JsonKeys(obj) == {k \in DOMAIN obj : ~IsUndefined(obj, k)}

\* encryptSession with the two expiries confused: the signature-level expiry
\* is written over the payload's expiresAt
encryptSession_ExpiryConfused(payload, t) ==
    LET iat == t \div 1000
        exp == iat + JWT_EXPIRY_SECONDS
        claims == [k \in JsonKeys(payload) \cup {"iat", "exp"} |->
                      IF k = "iat" THEN iat
                      ELSE IF k \in {"exp", "expiresAt"} THEN exp
                      ELSE payload[k]]
    IN  [form |-> "jws", alg |-> "HS256", claims |-> claims,
         sig |-> Sign(secretKey, "HS256", claims), pad |-> 0]

\* new SignJWT({...payload}).setProtectedHeader({alg:'HS256'}).setIssuedAt()
\*     .setExpirationTime('7d').sign(encodedKey)
\* The token is a compact JWS, base64url(header).base64url(claims).base64url(sig).
\* An HS256 signature is 32 bytes = 256 bits, written as 43 base64url
\* characters = 258 bits: the last character carries two bits that belong to
\* no signature byte.  `pad` is the value of those two bits; the encoder
\* writes them as zero.
encryptSession(payload, t) ==
    LET iat == t \div 1000
        exp == iat + JWT_EXPIRY_SECONDS
        claims == [k \in JsonKeys(payload) \cup {"iat", "exp"} |->
                      IF k = "iat" THEN iat
                      ELSE IF k = "exp" THEN exp
                      ELSE payload[k]]
    IN  [form |-> "jws", alg |-> "HS256", claims |-> claims,
         sig |-> Sign(secretKey, "HS256", claims), pad |-> 0]

\* jwtVerify(session, encodedKey, {algorithms: ['HS256']}):
\* either the verified claims or the error jose throws.
\* The HMAC is computed over the header and claims segments as received, so
\* any change to them changes the expected signature.  The signature segment
\* is base64url-decoded to bytes before it is compared, and the decoder drops
\* the two surplus bits of its last character without looking at them: `pad`
\* takes no part in the verification.
jwtVerify(session, t) ==
    IF session.form # "jws"
        THEN [kind |-> "throw", error |-> "JWSInvalid"]
    ELSE IF session.alg \notin {"HS256"}
        THEN [kind |-> "throw", error |-> "JOSEAlgNotAllowed"]
    ELSE IF session.sig # Sign(secretKey, session.alg, session.claims)
        THEN [kind |-> "throw", error |-> "JWSSignatureVerificationFailed"]
    ELSE IF "malformed" \in DOMAIN session.claims
        THEN [kind |-> "throw", error |-> "JWTInvalid"]
    ELSE IF "exp" \in DOMAIN session.claims /\ session.claims.exp <= t \div 1000
        THEN [kind |-> "throw", error |-> "JWTExpired"]
    ELSE [kind |-> "return", payload |-> session.claims]

Null == [kind |-> "null"]

\* decryptSession without the catch: what jose throws reaches the caller
decryptSession_NoCatch(session, t) ==
    LET r == jwtVerify(IF session.form = "undefined" THEN [form |-> "empty"] ELSE session, t)
    IN  IF r.kind = "throw" THEN r
        ELSE [kind |-> "payload", payload |-> r.payload]

\* try { return (await jwtVerify(...)).payload } catch { return null }
decryptSession(session, t) ==
    LET r == jwtVerify(IF session.form = "undefined" THEN [form |-> "empty"] ELSE session, t)
    IN  IF r.kind = "throw" THEN Null
        ELSE [kind |-> "payload", payload |-> r.payload]

----------------------------------------------------------------------------
(* Session store adapter: the `session` cookie *)

UndefinedToken == [form |-> "undefined"]

\* cookieStore.get('session')?.value
readSessionCookie(j) ==
    IF \E c \in j : c.name = "session"
        THEN (CHOOSE c \in j : c.name = "session").value
        ELSE UndefinedToken

\* writeSessionCookie that leaves an existing session cookie in place
writeSessionCookie_KeepExisting(j, sessionToken, expiresAt) ==
    IF \E c \in j : c.name = "session" THEN j
    ELSE {[name |-> "session", value |-> sessionToken, expires |-> expiresAt,
           httpOnly |-> TRUE, sameSite |-> "lax", path |-> "/"]}

\* cookieStore.set('session', token, {httpOnly, expires, sameSite:'lax', path:'/'})
writeSessionCookie(j, sessionToken, expiresAt) ==
    {c \in j : c.name # "session"} \cup
    {[name |-> "session", value |-> sessionToken, expires |-> expiresAt,
      httpOnly |-> TRUE, sameSite |-> "lax", path |-> "/"]}

\* cookieStore.delete('session')
deleteSessionCookie_Noop(j) == j

deleteSessionCookie(j) == {c \in j : c.name # "session"}

----------------------------------------------------------------------------
(* Session service: src/lib/auth/services/auth.service.ts *)

\* the payload createSession signs at time t
sessionPayloadOf(sessionData, t) ==
    [k \in DOMAIN sessionData \cup {"expiresAt"} |->
        IF k = "expiresAt" THEN t + EXPIRY_MS ELSE sessionData[k]]

createSession_CookieOutlivesPayload(j, sessionData, t) ==
    LET sessionPayload == sessionPayloadOf(sessionData, t)
        sessionToken == encryptSession(sessionPayload, t)
    IN  writeSessionCookie(j, sessionToken, t + JWT_EXPIRY_SECONDS * 1000)

\* the jar after createSession(sessionData) at time t
createSession(j, sessionData, t) ==
    LET sessionPayload == sessionPayloadOf(sessionData, t)
        sessionToken == encryptSession(sessionPayload, t)
    IN  writeSessionCookie(j, sessionToken, sessionPayload.expiresAt)

\* !sessionCookie: undefined and '' are falsy
getSession(j, t) ==
    LET sessionCookie == readSessionCookie(j)
    IN  IF sessionCookie.form \in {"undefined", "empty"} THEN Null
        ELSE decryptSession(sessionCookie, t)

Redirect(to) == [kind |-> "redirect", to |-> to]

\* verifySession without the expiresAt check
verifySession_NoExpiryCheck(j, t) ==
    LET session == getSession(j, t)
    IN  IF session.kind # "payload" \/ ~TruthyStr(session.payload, "userId")
            THEN Redirect("/login")
        ELSE [kind |-> "return", payload |-> session.payload]

\* export const verifySession = cache(async () => ...), one call
verifySession(j, t) ==
    LET session == getSession(j, t)
    IN  IF session.kind # "payload" \/ ~TruthyStr(session.payload, "userId")
            THEN Redirect("/login")
        ELSE IF TruthyNum(session.payload, "expiresAt") /\ session.payload.expiresAt < t
            THEN Redirect("/login")
        ELSE [kind |-> "return", payload |-> session.payload]

----------------------------------------------------------------------------
(* Route gate: src/proxy.ts *)

publicRoutes == {"/login"}

Paths == {"/login", "/dashboard", "/api/users"}

\* config.matcher: '/((?!api|_next/static|_next/image|.*\.png$).*)'
matcher(path) == path \notin {"/api/users"}

isValidSession_NoExpiry(j, t) ==
    LET session == decryptSession(readSessionCookie(j), t)
    IN  /\ session.kind = "payload"
        /\ TruthyStr(session.payload, "userId")

isValidSession(j, t) ==
    LET session == decryptSession(readSessionCookie(j), t)
    IN  /\ session.kind = "payload"
        /\ TruthyStr(session.payload, "userId")
        /\ (~TruthyNum(session.payload, "expiresAt") \/ session.payload.expiresAt > t)

\* proxy that lets a signed-in client through to /login
proxy_NoLoginRedirect(path, j, t) ==
    IF path \notin publicRoutes /\ ~isValidSession(j, t) THEN Redirect("/login")
    ELSE [kind |-> "next"]

\* export default async function proxy(req)
proxy(path, j, t) ==
    LET isPublicRoute == path \in publicRoutes
        isProtected == ~isPublicRoute
    IN  IF isProtected /\ ~isValidSession(j, t) THEN Redirect("/login")
        ELSE IF isPublicRoute /\ isValidSession(j, t) /\ path = "/login"
            THEN Redirect("/dashboard")
        ELSE [kind |-> "next"]

\* redirects a browser follows before it gives up
MaxHops == 4

\* the paths that are pages
PagePaths == {path \in Paths : matcher(path)}

\* the page has rendered
Rendered == "rendered"

\* one request for a page: the gate answers first, then a protected page
\* awaits verifySession; the result is where the browser is sent, or Rendered
navigate(path, j, t) ==
    IF proxy(path, j, t).kind = "redirect" THEN proxy(path, j, t).to
    ELSE IF path \notin publicRoutes /\ verifySession(j, t).kind = "redirect"
        THEN verifySession(j, t).to
    ELSE Rendered

\* where the browser ends after at most hops requests, starting at path
RECURSIVE follow(_, _, _, _)
follow(path, j, t, hops) ==
    IF hops = 0 THEN path
    ELSE IF navigate(path, j, t) = Rendered THEN Rendered
    ELSE follow(navigate(path, j, t), j, t, hops - 1)

----------------------------------------------------------------------------
(* What apiDal.authenticateUser(credentials) can hand back to login *)

RolesArray(items) == [type |-> "array", items |-> items]

ApiResults ==
    { [status |-> FALSE, message |-> "Invalid credentials"],
      [status |-> TRUE,  message |-> ""],
      [status |-> FALSE, message |-> "Account locked",
       data |-> [token |-> "t1", uid |-> "u1", username |-> "alice"]],
      [status |-> TRUE,  message |-> "OK",
       data |-> [uid |-> "u1", username |-> "alice"]],
      [status |-> TRUE,  message |-> "OK",
       data |-> [token |-> "t1", username |-> "alice"]],
      [status |-> TRUE,  message |-> "OK",
       data |-> [token |-> "t1", uid |-> "u1", username |-> ""]],
      [status |-> TRUE,  message |-> "OK",
       data |-> [token |-> "t1", uid |-> "u1", username |-> "alice",
                 roles |-> RolesArray(<<"Viewer">>)]],
      [status |-> TRUE,  message |-> "OK",
       data |-> [token |-> "t2", id |-> "7", username |-> "bob",
                 name |-> "Bob B", email |-> "bob@pgo.io",
                 roles |-> RolesArray(<<"Manager", "Viewer", "Guest">>),
                 refreshToken |-> "r2", userType |-> "STAFF",
                 requirePasswordChange |-> TRUE]],
      [status |-> TRUE,  message |-> "OK",
       data |-> [token |-> "t3", id |-> "9", uid |-> "u9", username |-> "carol",
                 name |-> "", roles |-> [type |-> "string"]]] }

\* the request inside authenticateUser failed: the exception passes through login
ApiThrows == {[threw |-> TRUE, message |-> "fetch failed"]}

\* a || b || '' over string properties of the backend's data
Coalesce(data, a, b) ==
    IF TruthyStr(data, a) THEN data[a]
    ELSE IF TruthyStr(data, b) THEN data[b]
    ELSE ""

OrUndefined(data, k) == IF k \in DOMAIN data THEN data[k] ELSE Undefined

\* sessionDataOf that copies id and uid without cross-filling
sessionDataOf_NoCrossFill(data) ==
    [userId |-> Coalesce(data, "id", "id"),
     uid |-> Coalesce(data, "uid", "uid"),
     token |-> data.token,
     refreshToken |-> OrUndefined(data, "refreshToken"),
     username |-> data.username,
     name |-> Coalesce(data, "name", "username"),
     email |-> Coalesce(data, "email", "email"),
     roles |-> IF "roles" \in DOMAIN data /\ data.roles.type = "array"
               THEN data.roles.items ELSE <<>>,
     userType |-> OrUndefined(data, "userType"),
     requirePasswordChange |-> TruthyBool(data, "requirePasswordChange")]

\* login, lines 51-65: the SessionData built from a validated response
sessionDataOf(data) ==
    [userId |-> Coalesce(data, "id", "uid"),
     uid |-> Coalesce(data, "uid", "id"),
     token |-> data.token,
     refreshToken |-> OrUndefined(data, "refreshToken"),
     username |-> data.username,
     name |-> Coalesce(data, "name", "username"),
     email |-> Coalesce(data, "email", "email"),
     roles |-> IF "roles" \in DOMAIN data /\ data.roles.type = "array"
               THEN data.roles.items ELSE <<>>,
     userType |-> OrUndefined(data, "userType"),
     requirePasswordChange |-> TruthyBool(data, "requirePasswordChange")]

\* loginError without the check for a user id
loginError_NoIdCheck(apiResult) ==
    IF "threw" \in DOMAIN apiResult THEN apiResult.message
    ELSE IF ~apiResult.status \/ "data" \notin DOMAIN apiResult
        THEN (IF apiResult.message # "" THEN apiResult.message ELSE "Login failed")
    ELSE IF ~TruthyStr(apiResult.data, "token") THEN "No token received from server"
    ELSE IF ~TruthyStr(apiResult.data, "username") THEN "No username received from server"
    ELSE "none"

\* login, lines 30-49: the error login throws, or "none"
loginError(apiResult) ==
    IF "threw" \in DOMAIN apiResult THEN apiResult.message
    ELSE IF ~apiResult.status \/ "data" \notin DOMAIN apiResult
        THEN (IF apiResult.message # "" THEN apiResult.message ELSE "Login failed")
    ELSE IF ~TruthyStr(apiResult.data, "token") THEN "No token received from server"
    ELSE IF ~TruthyStr(apiResult.data, "uid") /\ ~TruthyStr(apiResult.data, "id")
        THEN "No user ID received from server"
    ELSE IF ~TruthyStr(apiResult.data, "username") THEN "No username received from server"
    ELSE "none"

----------------------------------------------------------------------------
(* Permissions: a permission string is the sequence of its characters *)

PERMISSIONS ==
    [ USERS |-> [
        \* 'users.view'
        VIEW |-> <<"u", "s", "e", "r", "s", ".", "v", "i", "e", "w">>,
        \* 'users.create'
        CREATE |-> <<"u", "s", "e", "r", "s", ".", "c", "r", "e", "a", "t", "e">>,
        \* 'users.update'
        UPDATE |-> <<"u", "s", "e", "r", "s", ".", "u", "p", "d", "a", "t", "e">>,
        \* 'users.delete'
        DELETE |-> <<"u", "s", "e", "r", "s", ".", "d", "e", "l", "e", "t", "e">>,
        \* 'users.activate'
        ACTIVATE |-> <<"u", "s", "e", "r", "s", ".", "a", "c", "t", "i", "v", "a", "t", "e">>,
        \* 'users.deactivate'
        DEACTIVATE |-> <<"u", "s", "e", "r", "s", ".", "d", "e", "a", "c", "t", "i", "v", "a", "t", "e">>,
        \* 'users.lock'
        LOCK |-> <<"u", "s", "e", "r", "s", ".", "l", "o", "c", "k">>,
        \* 'users.unlock'
        UNLOCK |-> <<"u", "s", "e", "r", "s", ".", "u", "n", "l", "o", "c", "k">>,
        \* 'users.reset_password'
        RESET_PASSWORD |-> <<"u", "s", "e", "r", "s", ".", "r", "e", "s", "e", "t", "_", "p", "a", "s", "s", "w", "o", "r", "d">>,
        \* 'users.assign_roles'
        ASSIGN_ROLES |-> <<"u", "s", "e", "r", "s", ".", "a", "s", "s", "i", "g", "n", "_", "r", "o", "l", "e", "s">>,
        \* 'users.*'
        ALL |-> <<"u", "s", "e", "r", "s", ".", "*">> ],
      TRANSACTIONS |-> [
        \* 'transactions.view'
        VIEW |-> <<"t", "r", "a", "n", "s", "a", "c", "t", "i", "o", "n", "s", ".", "v", "i", "e", "w">>,
        \* 'transactions.create'
        CREATE |-> <<"t", "r", "a", "n", "s", "a", "c", "t", "i", "o", "n", "s", ".", "c", "r", "e", "a", "t", "e">>,
        \* 'transactions.update'
        UPDATE |-> <<"t", "r", "a", "n", "s", "a", "c", "t", "i", "o", "n", "s", ".", "u", "p", "d", "a", "t", "e">>,
        \* 'transactions.delete'
        DELETE |-> <<"t", "r", "a", "n", "s", "a", "c", "t", "i", "o", "n", "s", ".", "d", "e", "l", "e", "t", "e">>,
        \* 'transactions.update_status'
        UPDATE_STATUS |-> <<"t", "r", "a", "n", "s", "a", "c", "t", "i", "o", "n", "s", ".", "u", "p", "d", "a", "t", "e", "_", "s", "t", "a", "t", "u", "s">>,
        \* 'transactions.retry'
        RETRY |-> <<"t", "r", "a", "n", "s", "a", "c", "t", "i", "o", "n", "s", ".", "r", "e", "t", "r", "y">>,
        \* 'transactions.refund'
        REFUND |-> <<"t", "r", "a", "n", "s", "a", "c", "t", "i", "o", "n", "s", ".", "r", "e", "f", "u", "n", "d">>,
        \* 'transactions.complete'
        COMPLETE |-> <<"t", "r", "a", "n", "s", "a", "c", "t", "i", "o", "n", "s", ".", "c", "o", "m", "p", "l", "e", "t", "e">>,
        \* 'transactions.cancel'
        CANCEL |-> <<"t", "r", "a", "n", "s", "a", "c", "t", "i", "o", "n", "s", ".", "c", "a", "n", "c", "e", "l">>,
        \* 'transactions.export'
        EXPORT |-> <<"t", "r", "a", "n", "s", "a", "c", "t", "i", "o", "n", "s", ".", "e", "x", "p", "o", "r", "t">>,
        \* 'transactions.*'
        ALL |-> <<"t", "r", "a", "n", "s", "a", "c", "t", "i", "o", "n", "s", ".", "*">> ],
      DISBURSEMENTS |-> [
        \* 'disbursements.view'
        VIEW |-> <<"d", "i", "s", "b", "u", "r", "s", "e", "m", "e", "n", "t", "s", ".", "v", "i", "e", "w">>,
        \* 'disbursements.create'
        CREATE |-> <<"d", "i", "s", "b", "u", "r", "s", "e", "m", "e", "n", "t", "s", ".", "c", "r", "e", "a", "t", "e">>,
        \* 'disbursements.update'
        UPDATE |-> <<"d", "i", "s", "b", "u", "r", "s", "e", "m", "e", "n", "t", "s", ".", "u", "p", "d", "a", "t", "e">>,
        \* 'disbursements.delete'
        DELETE |-> <<"d", "i", "s", "b", "u", "r", "s", "e", "m", "e", "n", "t", "s", ".", "d", "e", "l", "e", "t", "e">>,
        \* 'disbursements.update_status'
        UPDATE_STATUS |-> <<"d", "i", "s", "b", "u", "r", "s", "e", "m", "e", "n", "t", "s", ".", "u", "p", "d", "a", "t", "e", "_", "s", "t", "a", "t", "u", "s">>,
        \* 'disbursements.retry'
        RETRY |-> <<"d", "i", "s", "b", "u", "r", "s", "e", "m", "e", "n", "t", "s", ".", "r", "e", "t", "r", "y">>,
        \* 'disbursements.complete'
        COMPLETE |-> <<"d", "i", "s", "b", "u", "r", "s", "e", "m", "e", "n", "t", "s", ".", "c", "o", "m", "p", "l", "e", "t", "e">>,
        \* 'disbursements.cancel'
        CANCEL |-> <<"d", "i", "s", "b", "u", "r", "s", "e", "m", "e", "n", "t", "s", ".", "c", "a", "n", "c", "e", "l">>,
        \* 'disbursements.export'
        EXPORT |-> <<"d", "i", "s", "b", "u", "r", "s", "e", "m", "e", "n", "t", "s", ".", "e", "x", "p", "o", "r", "t">>,
        \* 'disbursements.*'
        ALL |-> <<"d", "i", "s", "b", "u", "r", "s", "e", "m", "e", "n", "t", "s", ".", "*">> ],
      MERCHANTS |-> [
        \* 'merchants.view'
        VIEW |-> <<"m", "e", "r", "c", "h", "a", "n", "t", "s", ".", "v", "i", "e", "w">>,
        \* 'merchants.create'
        CREATE |-> <<"m", "e", "r", "c", "h", "a", "n", "t", "s", ".", "c", "r", "e", "a", "t", "e">>,
        \* 'merchants.update'
        UPDATE |-> <<"m", "e", "r", "c", "h", "a", "n", "t", "s", ".", "u", "p", "d", "a", "t", "e">>,
        \* 'merchants.delete'
        DELETE |-> <<"m", "e", "r", "c", "h", "a", "n", "t", "s", ".", "d", "e", "l", "e", "t", "e">>,
        \* 'merchants.activate'
        ACTIVATE |-> <<"m", "e", "r", "c", "h", "a", "n", "t", "s", ".", "a", "c", "t", "i", "v", "a", "t", "e">>,
        \* 'merchants.deactivate'
        DEACTIVATE |-> <<"m", "e", "r", "c", "h", "a", "n", "t", "s", ".", "d", "e", "a", "c", "t", "i", "v", "a", "t", "e">>,
        \* 'merchants.verify_kyc'
        VERIFY_KYC |-> <<"m", "e", "r", "c", "h", "a", "n", "t", "s", ".", "v", "e", "r", "i", "f", "y", "_", "k", "y", "c">>,
        \* 'merchants.manage_api_keys'
        MANAGE_API_KEYS |-> <<"m", "e", "r", "c", "h", "a", "n", "t", "s", ".", "m", "a", "n", "a", "g", "e", "_", "a", "p", "i", "_", "k", "e", "y", "s">>,
        \* 'merchants.export'
        EXPORT |-> <<"m", "e", "r", "c", "h", "a", "n", "t", "s", ".", "e", "x", "p", "o", "r", "t">>,
        \* 'merchants.*'
        ALL |-> <<"m", "e", "r", "c", "h", "a", "n", "t", "s", ".", "*">> ],
      ROLES |-> [
        \* 'roles.view'
        VIEW |-> <<"r", "o", "l", "e", "s", ".", "v", "i", "e", "w">>,
        \* 'roles.create'
        CREATE |-> <<"r", "o", "l", "e", "s", ".", "c", "r", "e", "a", "t", "e">>,
        \* 'roles.update'
        UPDATE |-> <<"r", "o", "l", "e", "s", ".", "u", "p", "d", "a", "t", "e">>,
        \* 'roles.delete'
        DELETE |-> <<"r", "o", "l", "e", "s", ".", "d", "e", "l", "e", "t", "e">>,
        \* 'roles.*'
        ALL |-> <<"r", "o", "l", "e", "s", ".", "*">> ],
      AUDIT_AND_LOGS |-> [
        \* 'audit_and_logs.view'
        VIEW |-> <<"a", "u", "d", "i", "t", "_", "a", "n", "d", "_", "l", "o", "g", "s", ".", "v", "i", "e", "w">>,
        \* 'audit_and_logs.*'
        ALL |-> <<"a", "u", "d", "i", "t", "_", "a", "n", "d", "_", "l", "o", "g", "s", ".", "*">> ],
      SYSTEM |-> [
        \* 'system.admin'
        ADMIN |-> <<"s", "y", "s", "t", "e", "m", ".", "a", "d", "m", "i", "n">>,
        \* '*'
        ALL |-> <<"*">> ] ]

Range(s) == {s[i] : i \in DOMAIN s}

ROLE_PERMISSIONS ==
    ("Super Administrator" :> <<PERMISSIONS.SYSTEM.ALL>>) @@
    ("Administrator" :>
        << PERMISSIONS.USERS.ALL, PERMISSIONS.TRANSACTIONS.ALL,
           PERMISSIONS.DISBURSEMENTS.ALL, PERMISSIONS.MERCHANTS.ALL,
           PERMISSIONS.ROLES.VIEW, PERMISSIONS.AUDIT_AND_LOGS.VIEW >>) @@
    ("Manager" :>
        << PERMISSIONS.USERS.VIEW, PERMISSIONS.TRANSACTIONS.ALL,
           PERMISSIONS.DISBURSEMENTS.VIEW, PERMISSIONS.MERCHANTS.VIEW,
           PERMISSIONS.MERCHANTS.UPDATE, PERMISSIONS.AUDIT_AND_LOGS.VIEW >>) @@
    ("Operator" :>
        << PERMISSIONS.TRANSACTIONS.VIEW, PERMISSIONS.TRANSACTIONS.UPDATE_STATUS,
           PERMISSIONS.DISBURSEMENTS.VIEW, PERMISSIONS.MERCHANTS.VIEW,
           PERMISSIONS.AUDIT_AND_LOGS.VIEW >>) @@
    ("Viewer" :>
        << PERMISSIONS.TRANSACTIONS.VIEW, PERMISSIONS.DISBURSEMENTS.VIEW,
           PERMISSIONS.MERCHANTS.VIEW, PERMISSIONS.AUDIT_AND_LOGS.VIEW >>)

\* String.prototype.endsWith / startsWith on character sequences
endsWith(s, suffix) ==
    /\ Len(s) >= Len(suffix)
    /\ SubSeq(s, Len(s) - Len(suffix) + 1, Len(s)) = suffix

startsWith(s, prefix) ==
    /\ Len(s) >= Len(prefix)
    /\ SubSeq(s, 1, Len(prefix)) = prefix

wildcardMatch_NoDot(p, permission) ==
    IF endsWith(p, <<".", "*">>)
    THEN LET prefix == SubSeq(p, 1, Len(p) - 2)
         IN  startsWith(permission, prefix) \/ permission = prefix
    ELSE FALSE

\* the callback of permissions.some(...): does the entry p grant permission?
wildcardMatch(p, permission) ==
    IF endsWith(p, <<".", "*">>)
    THEN LET prefix == SubSeq(p, 1, Len(p) - 2)
         IN  startsWith(permission, prefix \o <<".">>) \/ permission = prefix
    ELSE FALSE

\* ROLE_PERMISSIONS[role] || []
\* names every object literal answers to through Object.prototype: for these
\* ROLE_PERMISSIONS[role] is an inherited function or object, not undefined
InheritedKeys == {"constructor", "toString", "hasOwnProperty", "__proto__"}

\* permissions.includes(...) on what ROLE_PERMISSIONS[role] || [] gave: a
\* TypeError when that is an inherited member, which has no includes
hasPermissionThrows(role) ==
    role \notin DOMAIN ROLE_PERMISSIONS /\ role \in InheritedKeys

getRolePermissions(role) ==
    IF role \in DOMAIN ROLE_PERMISSIONS THEN ROLE_PERMISSIONS[role] ELSE <<>>

hasPermission_NoSuperAdmin(role, permission) ==
    LET permissions == getRolePermissions(role)
    IN  IF permission \in Range(permissions) THEN TRUE
        ELSE \E p \in Range(permissions) : wildcardMatch(p, permission)

hasPermission(role, permission) ==
    LET permissions == getRolePermissions(role)
    IN  IF PERMISSIONS.SYSTEM.ALL \in Range(permissions) THEN TRUE
        ELSE IF permission \in Range(permissions) THEN TRUE
        ELSE \E p \in Range(permissions) : wildcardMatch(p, permission)

hasAnyPermission(roles, permission) ==
    \E i \in DOMAIN roles : hasPermission(roles[i], permission)

hasAllPermissions_NoLengthCheck(roles, permission) ==
    \A i \in DOMAIN roles : hasPermission(roles[i], permission)

hasAllPermissions(roles, permission) ==
    /\ Len(roles) > 0
    /\ \A i \in DOMAIN roles : hasPermission(roles[i], permission)

\* new Set<string>() filled by permissions.forEach(p => allPermissions.add(p)):
\* a Set keeps its elements in the order of their first insertion
RECURSIVE allPermissions(_, _)
allPermissions(set, permissions) ==
    IF permissions = <<>> THEN set
    ELSE allPermissions(IF Head(permissions) \in Range(set) THEN set
                        ELSE Append(set, Head(permissions)),
                        Tail(permissions))

getRolesPermissions_NoSet(roles) ==
    LET RECURSIVE concat(_)
        concat(rs) == IF rs = <<>> THEN <<>>
                      ELSE getRolePermissions(Head(rs)) \o concat(Tail(rs))
    IN  concat(roles)

getRolesPermissions(roles) ==
    LET RECURSIVE forEach(_, _)
        forEach(set, rs) ==
            IF rs = <<>> THEN set
            ELSE forEach(allPermissions(set, getRolePermissions(Head(rs))), Tail(rs))
    IN  forEach(<<>>, roles)

\* auth.service.ts getUserPermissions(); a redirect of verifySession passes through
getUserPermissions(j, t) ==
    LET session == verifySession(j, t)
    IN  IF session.kind = "redirect" THEN session
        ELSE IF "roles" \notin DOMAIN session.payload \/ Len(session.payload.roles) = 0
        THEN [kind |-> "return", permissions |-> <<>>]
        ELSE [kind |-> "return", permissions |-> getRolesPermissions(session.payload.roles)]

----------------------------------------------------------------------------
(* Operations *)

\* a cookie the client still holds from before this server process started,
\* signed with the same key by a release whose payload had fewer fields
LegacyPayloads ==
    { [userId |-> "u0", uid |-> "u0", token |-> "t0", username |-> "old",
       name |-> "old", email |-> "", roles |-> <<"Viewer">>],
      [uid |-> "u0", token |-> "t0", username |-> "old",
       name |-> "old", email |-> "", roles |-> <<"Viewer">>] }

Init ==
    /\ now = 0
    /\ \/ jar = {} /\ active = {}
       \/ \E p \in LegacyPayloads :
            /\ jar = writeSessionCookie({}, encryptSession(p, 0), EXPIRY_MS)
            /\ active = {p}
    /\ written = jar
    /\ ret = [op |-> "init"]
    /\ nTicks = 0
    /\ env \in Environments
    /\ sessionModule = "unloaded"
    /\ requests = [r \in RequestIds |-> Idle]
    /\ memo = {}

\* session.dal.ts is evaluated when the server first imports it
LoadSessionModule ==
    /\ sessionModule = "unloaded"
    /\ sessionModule' = loadSessionModule(env)
    /\ ret' = [op |-> "loadSessionModule",
               kind |-> IF loadSessionModule(env) = "failed" THEN "throw" ELSE "return"]
    /\ UNCHANGED <<now, jar, written, active, nTicks, env, requests, memo>>

\* a call into the service: the module is loaded, and the call leaves the
\* process environment and the renders in progress as they are
Serving ==
    /\ sessionModule = "loaded"
    /\ UNCHANGED serverVars

\* auth.service.ts login()
Login(apiResult) ==
    /\ LET error == loginError(apiResult)
       IN  IF error # "none"
           THEN /\ ret' = [op |-> "login", apiResult |-> apiResult,
                           kind |-> "error", message |-> error]
                /\ UNCHANGED <<jar, written, active>>
           ELSE LET sessionData == sessionDataOf(apiResult.data)
                IN  /\ jar' = createSession(jar, sessionData, now)
                    /\ written' = jar'
                    /\ active' = {sessionPayloadOf(sessionData, now)}
                    /\ ret' = [op |-> "login", apiResult |-> apiResult,
                               kind |-> "return",
                               requirePasswordChange |-> sessionData.requirePasswordChange,
                               sessionPayload |-> sessionPayloadOf(sessionData, now)]
    /\ UNCHANGED <<now, nTicks>>
    /\ Serving

\* auth.service.ts logout()
Logout ==
    /\ jar' = deleteSessionCookie(jar)
    /\ written' = jar'
    /\ active' = {}
    /\ ret' = [op |-> "logout", kind |-> "return",
               hadCookie |-> readSessionCookie(jar) # UndefinedToken]
    /\ UNCHANGED <<now, nTicks>>
    /\ Serving

\* auth.service.ts getUserPermissions()
GetUserPermissions ==
    /\ ret' = [op |-> "getUserPermissions", outcome |-> getUserPermissions(jar, now)]
    /\ UNCHANGED <<now, jar, written, active, nTicks>>
    /\ Serving

\* auth.service.ts getSession()
GetSession ==
    /\ ret' = [op |-> "getSession", session |-> getSession(jar, now)]
    /\ UNCHANGED <<now, jar, written, active, nTicks>>
    /\ Serving

\* auth.service.ts verifySession()
VerifySession ==
    /\ ret' = [op |-> "verifySession", outcome |-> verifySession(jar, now)]
    /\ UNCHANGED <<now, jar, written, active, nTicks>>
    /\ Serving

\* proxy.ts proxy(req), for the paths the matcher hands to it
Proxy(path) ==
    /\ matcher(path)
    /\ ret' = [op |-> "proxy", path |-> path, response |-> proxy(path, jar, now)]
    /\ UNCHANGED <<now, jar, written, active, nTicks>>
    /\ Serving

\* session.dal.ts decryptSession(session) called on whatever the request carries
RawTokens == {UndefinedToken}

DecryptSession(session) ==
    /\ ret' = [op |-> "decryptSession", session |-> session,
               outcome |-> decryptSession(session, now)]
    /\ UNCHANGED <<now, jar, written, active, nTicks>>
    /\ Serving

\* POST /api/auth/change-password
ChangePasswordBodies == {"invalid-json", "missing-field", "mismatch", "ok"}

ChangePasswordBackend == {"ok", "rejected", "unreachable"}

clearedSessionData_DropsUserType(session) ==
    [k \in SessionDataKeys |->
        IF k = "requirePasswordChange" THEN FALSE
        ELSE IF k = "userType" THEN Undefined
        ELSE IF k \in OptionalStringKeys THEN OrUndefined(session, k)
        ELSE session[k]]

\* the SessionData the route hands to createSession once the backend accepted
clearedSessionData(session) ==
    [k \in SessionDataKeys |->
        IF k = "requirePasswordChange" THEN FALSE
        ELSE IF k \in OptionalStringKeys THEN OrUndefined(session, k)
        ELSE session[k]]

ChangePassword_RecreatesBeforeBackend(body, backend) ==
    LET session == getSession(jar, now)
        status == IF backend = "ok" THEN 200
                  ELSE IF backend = "rejected" THEN 422 ELSE 500
    IN  /\ IF session.kind # "payload" \/ ~TruthyStr(session.payload, "token")
           THEN /\ ret' = [op |-> "changePassword", status |-> 401]
                /\ UNCHANGED <<jar, written, active>>
           ELSE IF body # "ok"
           THEN /\ ret' = [op |-> "changePassword", status |-> 400]
                /\ UNCHANGED <<jar, written, active>>
           ELSE IF TruthyBool(session.payload, "requirePasswordChange")
           THEN /\ jar' = createSession(jar, clearedSessionData(session.payload), now)
                /\ written' = jar'
                /\ active' = {sessionPayloadOf(clearedSessionData(session.payload), now)}
                /\ ret' = [op |-> "changePassword", status |-> status]
           ELSE /\ ret' = [op |-> "changePassword", status |-> status]
                /\ UNCHANGED <<jar, written, active>>
        /\ UNCHANGED <<now, nTicks>>
        /\ Serving

ChangePassword(body, backend) ==
    LET session == getSession(jar, now)
    IN  /\ IF session.kind # "payload" \/ ~TruthyStr(session.payload, "token")
           THEN /\ ret' = [op |-> "changePassword", status |-> 401]
                /\ UNCHANGED <<jar, written, active>>
           ELSE IF body # "ok"
           THEN /\ ret' = [op |-> "changePassword", status |-> 400]
                /\ UNCHANGED <<jar, written, active>>
           ELSE IF backend = "unreachable"
           THEN /\ ret' = [op |-> "changePassword", status |-> 500]
                /\ UNCHANGED <<jar, written, active>>
           ELSE IF backend = "rejected"
           THEN /\ ret' = [op |-> "changePassword", status |-> 422]
                /\ UNCHANGED <<jar, written, active>>
           ELSE IF TruthyBool(session.payload, "requirePasswordChange")
           THEN /\ LET sessionData == clearedSessionData(session.payload)
                   IN  /\ jar' = createSession(jar, sessionData, now)
                       /\ active' = {sessionPayloadOf(sessionData, now)}
                       /\ ret' = [op |-> "changePassword", status |-> 200,
                                  sessionPayload |-> sessionPayloadOf(sessionData, now)]
                /\ written' = jar'
           ELSE /\ ret' = [op |-> "changePassword", status |-> 200]
                /\ UNCHANGED <<jar, written, active>>
        /\ UNCHANGED <<now, nTicks>>
        /\ Serving

\* auth.service.ts clearExpiredSession(): logout(), then redirect('/login')
clearExpiredSession(j) ==
    [jar |-> deleteSessionCookie(j), outcome |-> Redirect("/login")]

\* what the remote backend answers to a request that carries the bearer token
BackendAnswers == {"ok", "401", "403"}

\* no request reached the backend
NotCalled == "not-called"

\* the tRPC code of transactions.list for a backend status
errorCode(backend) ==
    IF backend = "401" THEN "UNAUTHORIZED"
    ELSE IF backend = "403" THEN "FORBIDDEN"
    ELSE "INTERNAL_SERVER_ERROR"

\* protectedProcedure and transactions.list as the page's caller runs them
getTransactions(j, t, backend) ==
    LET session == getSession(j, t)
    IN  IF session.kind # "payload"
        THEN [upstream |-> NotCalled, kind |-> "throw", code |-> "UNAUTHORIZED"]
        ELSE IF backend # "ok"
        THEN [upstream |-> backend, kind |-> "throw", code |-> errorCode(backend)]
        ELSE [upstream |-> backend, kind |-> "return"]

\* the page that lists transactions through the tRPC caller
TransactionsPage(backend) ==
    LET result == getTransactions(jar, now, backend)
    IN  /\ IF result.kind = "throw" /\ result.code = "UNAUTHORIZED"
           THEN /\ jar' = clearExpiredSession(jar).jar
                /\ written' = jar'
                /\ active' = {}
                /\ ret' = [op |-> "transactionsPage", upstream |-> result.upstream,
                           outcome |-> clearExpiredSession(jar).outcome]
           ELSE /\ ret' = [op |-> "transactionsPage", upstream |-> result.upstream,
                           outcome |-> IF result.kind = "throw"
                                       THEN [kind |-> "throw", code |-> result.code]
                                       ELSE [kind |-> "render"]]
                /\ UNCHANGED <<jar, written, active>>
        /\ UNCHANGED <<now, nTicks>>
        /\ Serving

\* features/disbursements/queries/server.ts fetchDisbursementsListServer()
fetchDisbursementsListServer(j, t, backend) ==
    LET session == getSession(j, t)
    IN  IF session.kind # "payload" \/ ~TruthyStr(session.payload, "token")
        THEN [upstream |-> NotCalled, kind |-> "throw",
              message |-> "Unauthorized: No session token available"]
        ELSE IF backend = "401"
        THEN [upstream |-> backend, kind |-> "throw", message |-> "Unauthorized"]
        ELSE IF backend = "403"
        THEN [upstream |-> backend, kind |-> "throw", message |-> "Forbidden"]
        ELSE [upstream |-> backend, kind |-> "return"]

FetchDisbursementsListServer(backend) ==
    /\ ret' = [op |-> "fetchDisbursementsListServer",
               result |-> fetchDisbursementsListServer(jar, now, backend)]
    /\ UNCHANGED <<now, jar, written, active, nTicks>>
    /\ Serving

CreateUserBodies == {"invalid", "valid"}

\* POST /api/users
createUser(j, t, body, backend) ==
    LET session == getSession(j, t)
    IN  IF session.kind # "payload" \/ ~TruthyStr(session.payload, "token")
        THEN [upstream |-> NotCalled, status |-> 401]
        ELSE IF body # "valid"
        THEN [upstream |-> NotCalled, status |-> 400]
        ELSE IF backend = "401" THEN [upstream |-> backend, status |-> 401]
        ELSE IF backend = "403" THEN [upstream |-> backend, status |-> 403]
        ELSE [upstream |-> backend, status |-> 201]

CreateUser(body, backend) ==
    /\ ret' = [op |-> "createUser", response |-> createUser(jar, now, body, backend)]
    /\ UNCHANGED <<now, jar, written, active, nTicks>>
    /\ Serving

----------------------------------------------------------------------------
(* Environment: the clock and the client *)

ClockSteps == {1, EXPIRY_MS - 1, JWT_EXPIRY_SECONDS * 1000 - EXPIRY_MS - 1}

\* the clock stays within the explored horizon
HorizonMs == MaxDays * 24 * 60 * 60 * 1000

Tick(d) ==
    /\ nTicks < MaxTicks
    /\ now + d <= HorizonMs
    /\ now' = now + d
    /\ nTicks' = nTicks + 1
    /\ ret' = [op |-> "tick"]
    /\ UNCHANGED <<jar, written, active>>
    /\ UNCHANGED serverVars

\* the tokens a client without the key can derive from a token it was given
Tampered(tok) ==
    { [tok EXCEPT !.alg = "none"],
      [tok EXCEPT !.claims.roles = <<"Super Administrator">>],
      [tok EXCEPT !.claims = [malformed |-> TRUE]],
      [tok EXCEPT !.sig = Sign(AttackerKey, tok.alg, tok.claims)],
      [tok EXCEPT !.pad = (tok.pad + 1) % 4],
      [form |-> "garbage"] }

\* the client replaces the value of the session cookie the server gave it
ClientTamper ==
    /\ \E w \in written :
        /\ w.name = "session"
        /\ \E v \in Tampered(w.value) :
            jar' = deleteSessionCookie(jar) \cup {[w EXCEPT !.value = v]}
    /\ ret' = [op |-> "tamper"]
    /\ UNCHANGED <<now, written, active, nTicks>>
    /\ UNCHANGED serverVars

\* the browser discards a cookie whose Expires attribute has passed
CookieExpires ==
    /\ \E c \in jar : c.expires <= now /\ jar' = jar \ {c}
    /\ ret' = [op |-> "cookieExpires"]
    /\ UNCHANGED <<now, written, active, nTicks>>
    /\ UNCHANGED serverVars

Next ==
    \/ LoadSessionModule
    \/ \E apiResult \in ApiResults \cup ApiThrows : Login(apiResult)
    \/ Logout
    \/ GetSession
    \/ VerifySession
    \/ GetUserPermissions
    \/ \E path \in Paths : Proxy(path)
    \/ \E session \in RawTokens \cup {readSessionCookie(jar)} : DecryptSession(session)
    \/ \E body \in ChangePasswordBodies, backend \in ChangePasswordBackend :
            ChangePassword(body, backend)
    \/ \E backend \in BackendAnswers : TransactionsPage(backend)
    \/ \E backend \in BackendAnswers : FetchDisbursementsListServer(backend)
    \/ \E body \in CreateUserBodies, backend \in BackendAnswers :
            CreateUser(body, backend)
    \/ \E d \in ClockSteps : Tick(d)
    \/ ClientTamper
    \/ CookieExpires

Spec == Init /\ [][Next]_vars

----------------------------------------------------------------------------
(* Concurrent renders: the service functions wrapped in React's cache() *)

\* the cookies an inbound request can carry: none, or the session of one user
UserJars ==
    {{}} \cup {createSession({}, sessionDataOf(a.data), 0) :
                  a \in {b \in ApiResults : loginError(b) = "none"}}

cacheScope_Process(r) == 0

\* cache() keeps one table of results per server request being rendered
cacheScope(r) == r

\* the entries cache() holds for fn in the scope of request r
Memoized(fn, r) == {m \in memo : m.scope = cacheScope(r) /\ m.fn = fn}

\* cache(fn)(): the stored result when there is one, else a fresh computation
cached(fn, r, computed) ==
    IF Memoized(fn, r) # {} THEN (CHOOSE m \in Memoized(fn, r) : TRUE).value
    ELSE computed

RequestInit ==
    /\ now = 0
    /\ jar = {}
    /\ written = {}
    /\ active = {}
    /\ ret = [op |-> "init"]
    /\ nTicks = 0
    /\ env = secretKey
    /\ sessionModule = "loaded"
    /\ requests = [r \in RequestIds |-> Idle]
    /\ memo = {}

\* a request arrives with its Cookie header and its render starts
BeginRequest(r, cookies) ==
    /\ requests[r] = Idle
    /\ requests' = [requests EXCEPT ![r] = [state |-> "rendering", cookies |-> cookies]]
    /\ ret' = [op |-> "beginRequest", request |-> r]
    /\ UNCHANGED <<now, jar, written, active, nTicks, env, sessionModule, memo>>

\* a component of request r awaits verifySession()
CachedVerifySession(r) ==
    /\ requests[r] # Idle
    /\ LET session == cached("verifySession", r, verifySession(requests[r].cookies, now))
       IN  /\ memo' = memo \cup
                 {[scope |-> cacheScope(r), fn |-> "verifySession", value |-> session]}
           /\ ret' = [op |-> "cachedVerifySession", request |-> r, outcome |-> session]
    /\ UNCHANGED <<now, jar, written, active, nTicks, env, sessionModule, requests>>

\* a component of request r awaits getUserPermissions(), which itself awaits
\* the memoized verifySession()
CachedGetUserPermissions(r) ==
    /\ requests[r] # Idle
    /\ LET session == cached("verifySession", r, verifySession(requests[r].cookies, now))
           computed ==
               IF session.kind = "redirect" THEN session
               ELSE IF "roles" \notin DOMAIN session.payload
                       \/ Len(session.payload.roles) = 0
               THEN [kind |-> "return", permissions |-> <<>>]
               ELSE [kind |-> "return",
                     permissions |-> getRolesPermissions(session.payload.roles)]
           permissions == cached("getUserPermissions", r, computed)
       IN  /\ memo' = memo \cup
                 IF Memoized("getUserPermissions", r) # {} THEN {}
                 ELSE {[scope |-> cacheScope(r), fn |-> "verifySession", value |-> session],
                       [scope |-> cacheScope(r), fn |-> "getUserPermissions",
                        value |-> permissions]}
           /\ ret' = [op |-> "cachedGetUserPermissions", request |-> r,
                      outcome |-> permissions]
    /\ UNCHANGED <<now, jar, written, active, nTicks, env, sessionModule, requests>>

\* the response of request r is sent: its cache() table is dropped
EndRequest(r) ==
    /\ requests[r] # Idle
    /\ requests' = [requests EXCEPT ![r] = Idle]
    /\ memo' = {m \in memo : m.scope # cacheScope(r)}
    /\ ret' = [op |-> "endRequest", request |-> r]
    /\ UNCHANGED <<now, jar, written, active, nTicks, env, sessionModule>>

RequestNext ==
    \/ \E r \in RequestIds, cookies \in UserJars : BeginRequest(r, cookies)
    \/ \E r \in RequestIds : CachedVerifySession(r)
    \/ \E r \in RequestIds : CachedGetUserPermissions(r)
    \/ \E r \in RequestIds : EndRequest(r)

RequestSpec == RequestInit /\ [][RequestNext]_vars

----------------------------------------------------------------------------
(* The permission functions applied to chosen arguments *)

MaxRoles == 2

\* role names a session can carry: the keys of the table and one it lacks
RoleNames == DOMAIN ROLE_PERMISSIONS \cup {"Guest"}

\* role strings that are not keys of the table
UnknownRoles == {"Guest", "", "viewer", "Administrator "} \cup InheritedKeys

\* role lists of up to MaxRoles names
RoleLists == UNION {[1..n -> RoleNames] : n \in 0..MaxRoles}

\* permission strings asked about: declared ones, a bare resource, a resource
\* with a trailing dot, names next to a declared resource, an undeclared
\* permission, the global wildcard and the empty string
QueryPermissions ==
    { PERMISSIONS.USERS.VIEW,
      PERMISSIONS.TRANSACTIONS.REFUND,
      PERMISSIONS.ROLES.CREATE,
      PERMISSIONS.SYSTEM.ALL,
      <<"u", "s", "e", "r", "s">>,
      <<"u", "s", "e", "r", "s", ".">>,
      <<"u", "s", "e", "r", "s", "s", ".", "v", "i", "e", "w">>,
      <<"u", "s", "e", "r", ".", "v", "i", "e", "w">>,
      <<"r", "e", "p", "o", "r", "t", "s", ".", "v", "i", "e", "w">>,
      <<>> }

\* entries a permission list can hold: those of the table and a wildcard on
\* a resource whose name extends a declared one
Entries ==
    UNION {Range(ROLE_PERMISSIONS[r]) : r \in DOMAIN ROLE_PERMISSIONS}
        \cup {<<"u", "s", "e", "r", "s", "s", ".", "*">>}

\* the arguments of one call: a role list and a permission, or a list entry
\* and a permission
Arguments ==
    [op : {"arguments"}, roles : RoleLists, permission : QueryPermissions]
        \cup [op : {"arguments"}, p : Entries, permission : QueryPermissions]
        \cup [op : {"arguments"}, role : UnknownRoles, permission : QueryPermissions]

PermissionInit ==
    /\ now = 0
    /\ jar = {}
    /\ written = {}
    /\ active = {}
    /\ ret \in Arguments
    /\ nTicks = 0
    /\ env = secretKey
    /\ sessionModule = "loaded"
    /\ requests = [r \in RequestIds |-> Idle]
    /\ memo = {}

HasPermission(role) ==
    /\ ret.op = "arguments"
    /\ \/ "roles" \in DOMAIN ret /\ role \in Range(ret.roles)
       \/ "role" \in DOMAIN ret /\ role = ret.role
    /\ ret' = IF hasPermissionThrows(role)
              THEN [op |-> "hasPermission", role |-> role,
                    permission |-> ret.permission, kind |-> "throw"]
              ELSE [op |-> "hasPermission", role |-> role,
                    permission |-> ret.permission, kind |-> "return",
                    result |-> hasPermission(role, ret.permission)]
    /\ UNCHANGED <<now, jar, written, active, nTicks, env, sessionModule, requests, memo>>

WildcardMatch ==
    /\ ret.op = "arguments" /\ "p" \in DOMAIN ret
    /\ ret' = [op |-> "wildcardMatch", p |-> ret.p, permission |-> ret.permission,
               result |-> wildcardMatch(ret.p, ret.permission)]
    /\ UNCHANGED <<now, jar, written, active, nTicks, env, sessionModule, requests, memo>>

HasAnyPermission ==
    /\ ret.op = "arguments" /\ "roles" \in DOMAIN ret
    /\ ret' = [op |-> "hasAnyPermission", roles |-> ret.roles,
               permission |-> ret.permission,
               result |-> hasAnyPermission(ret.roles, ret.permission)]
    /\ UNCHANGED <<now, jar, written, active, nTicks, env, sessionModule, requests, memo>>

HasAllPermissions ==
    /\ ret.op = "arguments" /\ "roles" \in DOMAIN ret
    /\ ret' = [op |-> "hasAllPermissions", roles |-> ret.roles,
               permission |-> ret.permission,
               result |-> hasAllPermissions(ret.roles, ret.permission)]
    /\ UNCHANGED <<now, jar, written, active, nTicks, env, sessionModule, requests, memo>>

PermissionNext ==
    \/ \E role \in RoleNames \cup UnknownRoles : HasPermission(role)
    \/ WildcardMatch
    \/ HasAnyPermission
    \/ HasAllPermissions

PermissionSpec == PermissionInit /\ [][PermissionNext]_vars

----------------------------------------------------------------------------
(* The login server action: what the form shows for each way login can end *)

\* the characters of every message that can reach the action
Text ==
    ("Account disabled" :>
        <<"A", "c", "c", "o", "u", "n", "t", " ", "d", "i", "s", "a", "b", "l", "e", "d">>) @@
    ("Invalid credentials" :>
        <<"I", "n", "v", "a", "l", "i", "d", " ", "c", "r", "e", "d", "e", "n", "t", "i", "a", "l", "s">>) @@
    ("Account locked" :>
        <<"A", "c", "c", "o", "u", "n", "t", " ", "l", "o", "c", "k", "e", "d">>) @@
    ("Login failed" :>
        <<"L", "o", "g", "i", "n", " ", "f", "a", "i", "l", "e", "d">>) @@
    ("No token received from server" :>
        <<"N", "o", " ", "t", "o", "k", "e", "n", " ", "r", "e", "c", "e", "i", "v", "e", "d", " ", "f", "r", "o", "m", " ", "s", "e", "r", "v", "e", "r">>) @@
    ("No user ID received from server" :>
        <<"N", "o", " ", "u", "s", "e", "r", " ", "I", "D", " ", "r", "e", "c", "e", "i", "v", "e", "d", " ", "f", "r", "o", "m", " ", "s", "e", "r", "v", "e", "r">>) @@
    ("No username received from server" :>
        <<"N", "o", " ", "u", "s", "e", "r", "n", "a", "m", "e", " ", "r", "e", "c", "e", "i", "v", "e", "d", " ", "f", "r", "o", "m", " ", "s", "e", "r", "v", "e", "r">>) @@
    ("Password expired" :>
        <<"P", "a", "s", "s", "w", "o", "r", "d", " ", "e", "x", "p", "i", "r", "e", "d">>) @@
    ("Too many attempts" :>
        <<"T", "o", "o", " ", "m", "a", "n", "y", " ", "a", "t", "t", "e", "m", "p", "t", "s">>) @@
    ("Your login attempt timed out" :>
        <<"Y", "o", "u", "r", " ", "l", "o", "g", "i", "n", " ", "a", "t", "t", "e", "m", "p", "t", " ", "t", "i", "m", "e", "d", " ", "o", "u", "t">>) @@
    ("Access from this network is not allowed" :>
        <<"A", "c", "c", "e", "s", "s", " ", "f", "r", "o", "m", " ", "t", "h", "i", "s", " ", "n", "e", "t", "w", "o", "r", "k", " ", "i", "s", " ", "n", "o", "t", " ", "a", "l", "l", "o", "w", "e", "d">>) @@
    ("fetch failed" :>
        <<"f", "e", "t", "c", "h", " ", "f", "a", "i", "l", "e", "d">>) @@
    ("This operation was aborted" :>
        <<"T", "h", "i", "s", " ", "o", "p", "e", "r", "a", "t", "i", "o", "n", " ", "w", "a", "s", " ", "a", "b", "o", "r", "t", "e", "d">>) @@
    ("Request timed out after 10000ms" :>
        <<"R", "e", "q", "u", "e", "s", "t", " ", "t", "i", "m", "e", "d", " ", "o", "u", "t", " ", "a", "f", "t", "e", "r", " ", "1", "0", "0", "0", "0", "m", "s">>) @@
    ("getaddrinfo ENOTFOUND api.pgo.io" :>
        <<"g", "e", "t", "a", "d", "d", "r", "i", "n", "f", "o", " ", "E", "N", "O", "T", "F", "O", "U", "N", "D", " ", "a", "p", "i", ".", "p", "g", "o", ".", "i", "o">>) @@
    ("connect ECONNREFUSED 10.0.0.1:443" :>
        <<"c", "o", "n", "n", "e", "c", "t", " ", "E", "C", "O", "N", "N", "R", "E", "F", "U", "S", "E", "D", " ", "1", "0", ".", "0", ".", "0", ".", "1", ":", "4", "4", "3">>) @@
    ("read ECONNRESET" :>
        <<"r", "e", "a", "d", " ", "E", "C", "O", "N", "N", "R", "E", "S", "E", "T">>) @@
    ("" :>
        <<>>)

\* the upper-case letters of those messages and their lower-case forms
LowerCase ==
    ("A" :> "a") @@
    ("C" :> "c") @@
    ("D" :> "d") @@
    ("E" :> "e") @@
    ("F" :> "f") @@
    ("I" :> "i") @@
    ("L" :> "l") @@
    ("N" :> "n") @@
    ("O" :> "o") @@
    ("P" :> "p") @@
    ("R" :> "r") @@
    ("S" :> "s") @@
    ("T" :> "t") @@
    ("U" :> "u") @@
    ("Y" :> "y")

\* String.prototype.toLowerCase
toLowerCase(s) ==
    [i \in 1..Len(s) |-> IF s[i] \in DOMAIN LowerCase THEN LowerCase[s[i]] ELSE s[i]]

\* String.prototype.includes
includes(s, sub) ==
    \E i \in 0..(Len(s) - Len(sub)) : SubSeq(s, i + 1, i + Len(sub)) = sub

\* the error has no cause
NoCause == "no-cause"

\* answers of the backend that login refuses, by their message
RefusedResults ==
    { [status |-> FALSE, message |-> m] :
        m \in {"Password expired", "Too many attempts", "Account disabled",
               "Your login attempt timed out",
               "Access from this network is not allowed"} }

\* the ways authLogin(credentials) can end: it returns, it throws the Error
\* login builds from the backend's answer, or the request itself failed
AuthLoginOutcomes ==
    {[kind |-> "return"]}
    \cup { [kind |-> "throw", origin |-> "authentication", name |-> "Error",
            message |-> loginError(a), cause |-> NoCause] :
            a \in {b \in ApiResults \cup RefusedResults : loginError(b) # "none"} }
    \cup { [kind |-> "throw", origin |-> "network", name |-> "TypeError",
            message |-> "fetch failed", cause |-> c] :
            c \in {NoCause, "getaddrinfo ENOTFOUND api.pgo.io",
                   "connect ECONNREFUSED 10.0.0.1:443", "read ECONNRESET"} }
    \cup { [kind |-> "throw", origin |-> "timeout", name |-> "AbortError",
            message |-> "This operation was aborted", cause |-> NoCause],
           [kind |-> "throw", origin |-> "timeout", name |-> "Error",
            message |-> "Request timed out after 10000ms", cause |-> NoCause] }

TimeoutMessage == "Request timed out. Please check your connection and try again."

UnreachableMessage ==
    "Cannot reach the server. Please check your internet connection or contact support."

NetworkMessage == "Network error. Please check your connection and try again."

\* the catch block of the action, for an error that is an instance of Error
loginMessage(error) ==
    LET errorMessage == Text[error.message]
        causeMessage == IF error.cause = NoCause THEN <<>> ELSE Text[error.cause]
        combinedMessage == toLowerCase(errorMessage \o <<" ">> \o causeMessage)
    IN  IF error.name = "AbortError"
           \/ includes(errorMessage, <<"t", "i", "m", "e", "d", " ", "o", "u", "t">>)
        THEN TimeoutMessage
        ELSE IF includes(combinedMessage, <<"e", "n", "o", "t", "f", "o", "u", "n", "d">>)
                \/ includes(combinedMessage,
                            <<"g", "e", "t", "a", "d", "d", "r", "i", "n", "f", "o">>)
        THEN UnreachableMessage
        ELSE IF includes(combinedMessage,
                         <<"f", "e", "t", "c", "h", " ", "f", "a", "i", "l", "e", "d">>)
                \/ includes(combinedMessage, <<"n", "e", "t", "w", "o", "r", "k">>)
        THEN NetworkMessage
        ELSE IF error.message # "" THEN error.message
        ELSE "Invalid credentials."

\* what the submitted form holds
Forms == {"valid", "no-username", "no-password"}

\* auth.actions.ts login(prevState, formData)
login(form, authLogin) ==
    IF form # "valid" THEN [kind |-> "errors", field |-> form]
    ELSE IF authLogin.kind = "throw"
    THEN [kind |-> "message", message |-> loginMessage(authLogin)]
    ELSE Redirect("/dashboard")

LoginActionInit ==
    /\ now = 0
    /\ jar = {}
    /\ written = {}
    /\ active = {}
    /\ ret \in [op : {"submit"}, form : Forms, authLogin : AuthLoginOutcomes]
    /\ nTicks = 0
    /\ env = secretKey
    /\ sessionModule = "loaded"
    /\ requests = [r \in RequestIds |-> Idle]
    /\ memo = {}

LoginAction ==
    /\ ret.op = "submit"
    /\ ret' = [op |-> "loginAction", form |-> ret.form, authLogin |-> ret.authLogin,
               state |-> login(ret.form, ret.authLogin)]
    /\ UNCHANGED <<now, jar, written, active, nTicks, env, sessionModule, requests, memo>>

LoginActionNext == LoginAction

LoginActionSpec == LoginActionInit /\ [][LoginActionNext]_vars

----------------------------------------------------------------------------
(* The disbursement list: the server prefetch and the client query of one key *)

MaxPage == 4

\* PAGINATION.PAGE_SIZE_OPTIONS
PAGE_SIZE_OPTIONS == {10, 15, 20, 30, 50}

\* the shapes of the backend's answer both readers handle: a bare array, an
\* object with the items and the page metadata, the same without pageNumber
BackendFormats == {"array", "paginated", "paginated-no-number"}

\* the backend's answer to ?page=index&size=size: the items of its page
\* number index, counted from 0, and that index as pageNumber
backendList(index, size, format) ==
    IF format = "paginated"
    THEN [format |-> format, items |-> [page |-> index, size |-> size],
          pageNumber |-> index]
    ELSE [format |-> format, items |-> [page |-> index, size |-> size]]

\* fetchDisbursementsListServer(params): what it stores for the key
serverList(page, per_page, format) ==
    LET responseData == backendList(page, per_page, format)
    IN  [data |-> responseData.items,
         pageNumber |-> IF format = "array" THEN page
                        ELSE IF "pageNumber" \in DOMAIN responseData
                            THEN responseData.pageNumber
                        ELSE page]

\* GET /api/disbursements?page=&per_page=: what the route answers
routeList(page, per_page, format) ==
    LET pageNum == IF page - 1 > 0 THEN page - 1 ELSE 0
        data == backendList(pageNum, per_page, format)
    IN  IF format = "array"
        THEN [format |-> "paginated", items |-> data.items, pageNumber |-> page]
        ELSE LET backendPageNumber ==
                     IF "pageNumber" \in DOMAIN data THEN data.pageNumber ELSE 0
             IN  [format |-> "paginated", items |-> data.items,
                  pageNumber |-> backendPageNumber + 1]

\* the queryFn of disbursementsListQueryOptions(params), run in the browser
clientList(page, per_page, format) ==
    LET responseData == routeList(page, per_page, format)
    IN  [data |-> responseData.items,
         pageNumber |-> responseData.pageNumber]

DisbursementInit ==
    /\ now = 0
    /\ jar = {}
    /\ written = {}
    /\ active = {}
    /\ ret \in [op : {"key"}, page : 1..MaxPage, per_page : PAGE_SIZE_OPTIONS,
                format : BackendFormats]
    /\ nTicks = 0
    /\ env = secretKey
    /\ sessionModule = "loaded"
    /\ requests = [r \in RequestIds |-> Idle]
    /\ memo = {}

\* the server fills the query cache for the key
PrefetchDisbursementsList ==
    /\ ret.op = "key"
    /\ ret' = [op |-> "prefetched", page |-> ret.page, per_page |-> ret.per_page,
               format |-> ret.format,
               server |-> serverList(ret.page, ret.per_page, ret.format)]
    /\ UNCHANGED <<now, jar, written, active, nTicks, env, sessionModule, requests, memo>>

\* the entry is stale and the browser runs the queryFn of the same key
RefetchDisbursementsList ==
    /\ ret.op = "prefetched"
    /\ ret' = [op |-> "refetched", page |-> ret.page, per_page |-> ret.per_page,
               format |-> ret.format, server |-> ret.server,
               client |-> clientList(ret.page, ret.per_page, ret.format)]
    /\ UNCHANGED <<now, jar, written, active, nTicks, env, sessionModule, requests, memo>>

DisbursementNext ==
    \/ PrefetchDisbursementsList
    \/ RefetchDisbursementsList

DisbursementSpec == DisbursementInit /\ [][DisbursementNext]_vars

----------------------------------------------------------------------------
(* The list components: the page-ahead effect of DisbursementsList and UsersList *)

\* PAGINATION.PREFETCH_PAGES_AHEAD; DisbursementsList writes the literal 2
PREFETCH_PAGES_AHEAD == 2

\* data.totalPages, the same on every page of one list
totalPages == MaxPage

Components == {"DisbursementsList", "UsersList"}

\* no data: useQuery has neither the page of the key nor a previous page
NoData == 0

\* useQuery(...ListQueryOptions(queryParams)).data, named by its pageNumber:
\* the cached page of the key, else placeholderData, the page shown before
useQueryData(page, cache, previousData) ==
    IF page \in cache THEN page ELSE previousData

\* the for loop of the effect: the pages ahead of currentPage that exist
pagesAhead(currentPage) ==
    {currentPage + i : i \in 1..PREFETCH_PAGES_AHEAD} \cap 1..totalPages

\* pagesToPrefetch of one run of the effect; empty when the run returns early
pagesToPrefetch(component, page, data) ==
    IF data = NoData THEN {}
    ELSE IF component = "DisbursementsList" /\ data # page THEN {}
    ELSE pagesAhead(data)

\* one re-run of the effect: the cleanup of the previous run cancels its pages,
\* then the body issues a prefetch for each page ahead that is not cached
runEffect(st, page, data, cache) ==
    LET pages == pagesToPrefetch(st.component, page, data)
        issued == pages \ cache
    IN  [issued |-> issued,
         cleanup |-> pages,
         prefetching |-> (st.prefetching \ st.cleanup) \cup issued]

ListInit ==
    /\ now = 0
    /\ jar = {}
    /\ written = {}
    /\ active = {}
    /\ \E component \in Components, cache \in {{}, {1}} :
           LET data == useQueryData(1, cache, NoData)
               mounted == [component |-> component, prefetching |-> {}, cleanup |-> {}]
               effect == runEffect(mounted, 1, data, cache)
           IN  ret = [op |-> "mount", component |-> component, page |-> 1,
                      data |-> data, cache |-> cache,
                      fetching |-> {1} \ cache,
                      prefetching |-> effect.prefetching,
                      issued |-> effect.issued, cleanup |-> effect.cleanup]
    /\ nTicks = 0
    /\ env = secretKey
    /\ sessionModule = "loaded"
    /\ requests = [r \in RequestIds |-> Idle]
    /\ memo = {}

\* the table store's pagination changes: a new key, the effect runs again
SetPagination(page) ==
    /\ ret.op \in {"mount", "setPagination", "fetchArrives"}
    /\ page # ret.page
    /\ LET data == useQueryData(page, ret.cache, ret.data)
           effect == runEffect(ret, page, data, ret.cache)
       IN  ret' = [ret EXCEPT !.op = "setPagination", !.page = page, !.data = data,
                       !.fetching = IF page \in ret.cache \cup ret.prefetching
                                    THEN @ ELSE @ \cup {page},
                       !.prefetching = effect.prefetching,
                       !.issued = effect.issued, !.cleanup = effect.cleanup]
    /\ UNCHANGED <<now, jar, written, active, nTicks, env, sessionModule, requests, memo>>

\* a fetch or prefetch in flight answers; the effect runs again when the page
\* of the key arrives and data changes
FetchArrives(page) ==
    /\ ret.op \in {"mount", "setPagination", "fetchArrives"}
    /\ page \in ret.fetching \cup ret.prefetching
    /\ LET cache == ret.cache \cup {page}
           arrived == [ret EXCEPT !.prefetching = @ \ {page}]
           data == useQueryData(ret.page, cache, ret.data)
           effect == runEffect(arrived, ret.page, data, cache)
       IN  IF data # ret.data
           THEN ret' = [ret EXCEPT !.op = "fetchArrives", !.cache = cache,
                            !.data = data, !.fetching = @ \ {page},
                            !.prefetching = effect.prefetching,
                            !.issued = effect.issued, !.cleanup = effect.cleanup]
           ELSE ret' = [ret EXCEPT !.op = "fetchArrives", !.cache = cache,
                            !.fetching = @ \ {page},
                            !.prefetching = @ \ {page}, !.issued = {}]
    /\ UNCHANGED <<now, jar, written, active, nTicks, env, sessionModule, requests, memo>>

ListNext ==
    \/ \E page \in 1..MaxPage : SetPagination(page)
    \/ \E page \in 1..MaxPage : FetchArrives(page)

ListSpec == ListInit /\ [][ListNext]_vars

----------------------------------------------------------------------------
(* The menu filter applied to chosen items and roles *)

MaxItems == 2

\* MenuItem values: the optional members permission, permissions and
\* requireAll are members of the record only when the item has them
MenuItems ==
    { [title |-> "Dashboard"],
      [title |-> "Users", permission |-> PERMISSIONS.USERS.VIEW],
      [title |-> "Refunds", permission |-> PERMISSIONS.TRANSACTIONS.REFUND],
      [title |-> "Staff",
       permissions |-> <<PERMISSIONS.USERS.VIEW, PERMISSIONS.ROLES.CREATE>>],
      [title |-> "Access",
       permissions |-> <<PERMISSIONS.USERS.VIEW, PERMISSIONS.ROLES.CREATE>>,
       requireAll |-> TRUE],
      [title |-> "Draft", permissions |-> <<>>],
      [title |-> "Ledger", permission |-> PERMISSIONS.TRANSACTIONS.REFUND,
       permissions |-> <<PERMISSIONS.USERS.VIEW>>, requireAll |-> FALSE] }

ItemLists == UNION {[1..n -> MenuItems] : n \in 0..MaxItems}

\* item.permission, item.permissions and item.requireAll as conditions: a
\* missing member is undefined, a permission name and an array are truthy
hasSinglePermission(item) == "permission" \in DOMAIN item
hasPermissionsList(item) == "permissions" \in DOMAIN item
requiresAll(item) == "requireAll" \in DOMAIN item /\ item.requireAll

\* the callback of items.filter for a non-empty role list, with some() in
\* place of every()
visible_AlwaysAny(item, roles) ==
    IF ~hasSinglePermission(item) /\ ~hasPermissionsList(item) THEN TRUE
    ELSE IF hasSinglePermission(item)
        THEN hasAnyPermission(roles, item.permission)
    ELSE IF hasPermissionsList(item) /\ Len(item.permissions) > 0
        THEN \E i \in DOMAIN item.permissions :
                 hasAnyPermission(roles, item.permissions[i])
    ELSE FALSE

\* the callback of items.filter for a non-empty role list
visible(item, roles) ==
    IF ~hasSinglePermission(item) /\ ~hasPermissionsList(item) THEN TRUE
    ELSE IF hasSinglePermission(item)
        THEN hasAnyPermission(roles, item.permission)
    ELSE IF hasPermissionsList(item) /\ Len(item.permissions) > 0
        THEN IF requiresAll(item)
             THEN \A i \in DOMAIN item.permissions :
                      hasAnyPermission(roles, item.permissions[i])
             ELSE \E i \in DOMAIN item.permissions :
                      hasAnyPermission(roles, item.permissions[i])
    ELSE FALSE

\* the roles argument: an array, or undefined when the caller has none
NoRoles == [defined |-> FALSE]
GivenRoles(list) == [defined |-> TRUE, list |-> list]

filterMenuItems(items, roles) ==
    LET open(item) == ~hasSinglePermission(item) /\ ~hasPermissionsList(item)
        granted(item) == visible(item, roles.list)
    IN  IF ~roles.defined \/ Len(roles.list) = 0
        THEN SelectSeq(items, open)
        ELSE SelectSeq(items, granted)

MenuInit ==
    /\ now = 0
    /\ jar = {}
    /\ written = {}
    /\ active = {}
    /\ \E items \in ItemLists,
          roles \in {GivenRoles(list) : list \in RoleLists} \cup {NoRoles} :
           ret = [op |-> "arguments", items |-> items, roles |-> roles]
    /\ nTicks = 0
    /\ env = secretKey
    /\ sessionModule = "loaded"
    /\ requests = [r \in RequestIds |-> Idle]
    /\ memo = {}

FilterMenuItems ==
    /\ ret.op = "arguments"
    /\ ret' = [op |-> "filterMenuItems", items |-> ret.items, roles |-> ret.roles,
               result |-> filterMenuItems(ret.items, ret.roles)]
    /\ UNCHANGED <<now, jar, written, active, nTicks, env, sessionModule, requests, memo>>

MenuNext == FilterMenuItems

MenuSpec == MenuInit /\ [][MenuNext]_vars

----------------------------------------------------------------------------
(* POST /api/users/[id]/reset-password applied to chosen sessions *)

\* what getSession can hand to the route: null, or a payload whose token may
\* be empty and whose roles may be missing
RouteSessions ==
    {Null}
        \cup [token : {"", "bearer"}, roles : RoleLists]
        \cup [token : {"bearer"}]

\* the backend's answer to the forwarded request; fetch can also reject
ResetPasswordBackend == BackendAnswers \cup {"unreachable"}

\* the isAdmin test with Manager added to the two names
isAdmin_ManagerToo(session) ==
    /\ "roles" \in DOMAIN session
    /\ \E i \in DOMAIN session.roles :
           session.roles[i] \in {"Super Administrator", "Administrator", "Manager"}

\* session.roles?.some(role => role === 'Super Administrator' || role === 'Administrator')
isAdmin(session) ==
    /\ "roles" \in DOMAIN session
    /\ \E i \in DOMAIN session.roles :
           session.roles[i] = "Super Administrator" \/ session.roles[i] = "Administrator"

resetPassword(session, backend) ==
    IF ~("token" \in DOMAIN session /\ session.token # "")
    THEN [upstream |-> NotCalled, status |-> "401"]
    ELSE IF ~isAdmin(session)
        THEN [upstream |-> NotCalled, status |-> "403"]
    ELSE IF backend = "unreachable"
        THEN [upstream |-> session.token, status |-> "500"]
    ELSE IF backend # "ok"
        THEN [upstream |-> session.token, status |-> backend]
    ELSE [upstream |-> session.token, status |-> "200"]

ResetPasswordInit ==
    /\ now = 0
    /\ jar = {}
    /\ written = {}
    /\ active = {}
    /\ ret \in [op : {"request"}, session : RouteSessions,
                backend : ResetPasswordBackend]
    /\ nTicks = 0
    /\ env = secretKey
    /\ sessionModule = "loaded"
    /\ requests = [r \in RequestIds |-> Idle]
    /\ memo = {}

ResetPassword ==
    /\ ret.op = "request"
    /\ ret' = [op |-> "resetPassword", session |-> ret.session,
               backend |-> ret.backend,
               response |-> resetPassword(ret.session, ret.backend)]
    /\ UNCHANGED <<now, jar, written, active, nTicks, env, sessionModule, requests, memo>>

ResetPasswordNext == ResetPassword

ResetPasswordSpec == ResetPasswordInit /\ [][ResetPasswordNext]_vars

----------------------------------------------------------------------------
(* Properties *)

\* the token the client presents carries a signature made with the server's key
CorrectlySigned(tok) ==
    /\ tok.form = "jws"
    /\ tok.alg = "HS256"
    /\ tok.sig = Sign(secretKey, tok.alg, tok.claims)
    /\ "malformed" \notin DOMAIN tok.claims

\* the token's signature-level expiry (exp, in seconds) has been reached
SignatureExpired(tok, t) == "exp" \in DOMAIN tok.claims /\ tok.claims.exp <= t \div 1000

\* the payload's own expiresAt (milliseconds) lies before t
PayloadExpired(claims, t) == "expiresAt" \in DOMAIN claims /\ claims.expiresAt < t

\* what the gate answers to a request it classifies as unauthenticated
Unauthenticated(path) == IF path \in publicRoutes THEN [kind |-> "next"] ELSE Redirect("/login")

\* C1: a correctly signed token whose payload expiresAt is earlier than the
\* clock, and whose signature-level expiry is not yet reached, is no session:
\* getSession returns null and the gate treats the request as unauthenticated.
C1_ExpiredPayloadIsNoSession ==
    LET tok == readSessionCookie(jar)
    IN  (/\ CorrectlySigned(tok)
         /\ ~SignatureExpired(tok, now)
         /\ PayloadExpired(tok.claims, now))
        => /\ ret.op = "getSession" => ret.session.kind = "null"
           /\ ret.op = "proxy" => ret.response = Unauthenticated(ret.path)

\* C2: at every clock instant and for every cookie, verifySession returns the
\* payload exactly when the gate's validity test accepts the session.
C2_GateAgreesWithVerifySession ==
    ret.op = "verifySession" =>
        (ret.outcome.kind = "return" <=> isValidSession(jar, now))

\* C3: the gate redirects a path other than /login without a valid session to
\* /login, redirects /login with a valid session to /dashboard, and lets every
\* other request through.
C3_GateRedirects ==
    ret.op = "proxy" =>
        LET valid == isValidSession(jar, now)
        IN  /\ (ret.path # "/login" /\ ~valid) => ret.response = Redirect("/login")
            /\ (ret.path = "/login" /\ valid) => ret.response = Redirect("/dashboard")
            /\ (ret.path # "/login" /\ valid) => ret.response = [kind |-> "next"]
            /\ (ret.path = "/login" /\ ~valid) => ret.response = [kind |-> "next"]

C3_Witness ==
    /\ ret.op = "proxy"
    /\ ret.path = "/login"
    /\ ret.response = Redirect("/dashboard")
    /\ "expiresAt" \in DOMAIN getSession(jar, now).payload

\* C4: verifySession returns a payload only when the cookie decodes and the
\* payload's expiresAt has not passed; when getSession yields null or
\* expiresAt has passed it redirects to /login and returns nothing.
C4_VerifySessionOutcome ==
    ret.op = "verifySession" =>
        LET session == getSession(jar, now)
            decoded == decryptSession(readSessionCookie(jar), now)
        IN  /\ ret.outcome.kind \in {"return", "redirect"}
            /\ ret.outcome.kind = "return" =>
                /\ decoded.kind = "payload"
                /\ ret.outcome.payload = decoded.payload
                /\ ~PayloadExpired(decoded.payload, now)
            /\ (session.kind = "null" \/ PayloadExpired(session.payload, now)) =>
                ret.outcome = Redirect("/login")

C4_Witness ==
    /\ ret.op = "verifySession"
    /\ ret.outcome = Redirect("/login")
    /\ getSession(jar, now).kind = "payload"
    /\ PayloadExpired(getSession(jar, now).payload, now)

\* C5: decoding the token encryptSession made for a payload p whose expiresAt
\* is in the future yields a payload equal to p in every SessionPayload field.
C5_RoundTrip ==
    ("sessionPayload" \in DOMAIN ret /\ ret.sessionPayload.expiresAt > now) =>
        LET decoded == decryptSession(readSessionCookie(jar), now)
        IN  /\ decoded.kind = "payload"
            /\ SamePayload(decoded.payload, ret.sessionPayload)

C5_Witness ==
    /\ ret.op = "login"
    /\ ret.kind = "return"
    /\ ret.sessionPayload.refreshToken = Undefined
    /\ ret.sessionPayload.expiresAt > now
    /\ decryptSession(readSessionCookie(jar), now).kind = "payload"

\* C6: decryptSession never throws; for a missing or undefined token, a bad
\* signature, a passed signature-level expiry and malformed claims it
\* returns null.
C6_DecryptNeverThrows ==
    ret.op = "decryptSession" =>
        /\ ret.outcome.kind \in {"null", "payload"}
        /\ (~CorrectlySigned(ret.session) \/ SignatureExpired(ret.session, now)) =>
            ret.outcome = Null

C6_Witness ==
    /\ ret.op = "decryptSession"
    /\ CorrectlySigned(ret.session)
    /\ SignatureExpired(ret.session, now)
    /\ ret.outcome = Null

\* C7: every token that differs from a token encryptSession produced, in
\* header, claims or signature, is rejected by decryptSession with null.
C7_TamperedTokenRejected ==
    (/\ ret.op = "decryptSession"
     /\ ret.session = readSessionCookie(jar)
     /\ \E w \in written : "expiresAt" \in DOMAIN w.value.claims /\ w.value # ret.session)
    => ret.outcome = Null

\* C8: the single cookie slot holds at most one session; getSession never
\* returns a payload other than the one of the most recent createSession, none
\* after a logout, and it returns that payload while the cookie is as the
\* server wrote it and the token's signature-level expiry is not reached.
C8_SingleActiveSession ==
    /\ Cardinality({c \in jar : c.name = "session"}) <= 1
    /\ ret.op = "getSession" =>
        /\ ret.session.kind \in {"null", "payload"}
        /\ ret.session.kind = "payload" =>
            \E p \in active : SamePayload(ret.session.payload, p)
        /\ (/\ active # {}
            /\ jar = written
            /\ ~SignatureExpired(readSessionCookie(jar), now))
           => ret.session.kind = "payload"

C8_Witness ==
    /\ ret.op = "getSession"
    /\ ret.session.kind = "payload"
    /\ ret.session.payload.token = "t2"
    /\ ~ret.session.payload.requirePasswordChange
    /\ \E p \in active : SamePayload(ret.session.payload, p)

\* the generic messages login falls back to
FallbackMessages ==
    {"Login failed", "No token received from server",
     "No user ID received from server", "No username received from server"}

\* the backend answered, and the answer is one login must refuse
Refused(apiResult) ==
    /\ "threw" \notin DOMAIN apiResult
    /\ \/ ~apiResult.status
       \/ "data" \notin DOMAIN apiResult
       \/ ~TruthyStr(apiResult.data, "token")
       \/ ~TruthyStr(apiResult.data, "id") /\ ~TruthyStr(apiResult.data, "uid")
       \/ ~TruthyStr(apiResult.data, "username")

\* C9: when the backend returns a falsy status, no data, or data lacking a
\* token, lacking both id and uid, or lacking a username, login fails with the
\* backend's message or a generic fallback and the cookie stays as it was.
C9_FailedLoginKeepsCookie ==
    [][ (ret'.op = "login" /\ Refused(ret'.apiResult)) =>
            /\ ret'.kind = "error"
            /\ ret'.message \in {ret'.apiResult.message} \cup FallbackMessages
            /\ ret'.message # ""
            /\ ((~ret'.apiResult.status \/ "data" \notin DOMAIN ret'.apiResult)
                    /\ ret'.apiResult.message # "")
                => ret'.message = ret'.apiResult.message
            /\ jar' = jar ]_vars

C9_Witness ==
    /\ ret.op = "login"
    /\ ret.kind = "error"
    /\ Refused(ret.apiResult)
    /\ ret.message = "Invalid credentials"
    /\ getSession(jar, now).kind = "payload"
    /\ "expiresAt" \in DOMAIN getSession(jar, now).payload

\* C10: after a successful login the stored session has name defaulted to the
\* username, email to the empty string, roles to the empty list, and userId
\* and uid both non-empty, each cross-filled from whichever of id and uid the
\* backend supplied.
C10_LoginDefaults ==
    (ret.op = "login" /\ ret.kind = "return") =>
        LET data == ret.apiResult.data
            session == getSession(jar, now)
        IN  /\ session.kind = "payload"
            /\ session.payload.name =
                  (IF TruthyStr(data, "name") THEN data.name ELSE data.username)
            /\ session.payload.email =
                  (IF TruthyStr(data, "email") THEN data.email ELSE "")
            /\ session.payload.roles =
                  (IF "roles" \in DOMAIN data /\ data.roles.type = "array"
                   THEN data.roles.items ELSE <<>>)
            /\ session.payload.userId # ""
            /\ session.payload.uid # ""
            /\ TruthyStr(data, "id") => session.payload.userId = data.id
            /\ TruthyStr(data, "uid") => session.payload.uid = data.uid
            /\ ~TruthyStr(data, "id") => session.payload.userId = data.uid
            /\ ~TruthyStr(data, "uid") => session.payload.uid = data.id

C10_Witness ==
    /\ ret.op = "login"
    /\ ret.kind = "return"
    /\ "name" \notin DOMAIN ret.apiResult.data
    /\ "email" \notin DOMAIN ret.apiResult.data
    /\ "id" \notin DOMAIN ret.apiResult.data
    /\ getSession(jar, now).payload.userId = ret.apiResult.data.uid

C12_PasswordChangeKeepsFields ==
    [][ ( /\ ret'.op = "changePassword"
          /\ ret'.status = 200
          /\ getSession(jar, now).kind = "payload"
          /\ TruthyBool(getSession(jar, now).payload, "requirePasswordChange") )
        => LET before == getSession(jar, now).payload
               after == getSession(jar', now')
           IN  /\ after.kind = "payload"
               /\ after.payload.requirePasswordChange = FALSE
               /\ \A k \in SessionDataKeys \ {"requirePasswordChange"} :
                      SameField(before, after.payload, k) ]_vars

C12_Witness ==
    /\ ret.op = "changePassword"
    /\ ret.status = 200
    /\ "sessionPayload" \in DOMAIN ret
    /\ getSession(jar, now).kind = "payload"
    /\ getSession(jar, now).payload.requirePasswordChange = FALSE
    /\ getSession(jar, now).payload.userType = "STAFF"
    /\ getSession(jar, now).payload.refreshToken = "r2"

\* the session the request carries still has to change its password
MustChangePassword ==
    /\ getSession(jar, now).kind = "payload"
    /\ TruthyBool(getSession(jar, now).payload, "requirePasswordChange")

\* C13: while the active session has requirePasswordChange = true, no protected
\* page other than the password-change page renders and no privileged action
\* other than the password change and logout reaches the backend
C13_ForcedPasswordChangeConfines ==
    MustChangePassword =>
        /\ ~(ret.op = "createUser" /\ ret.response.upstream # NotCalled)
        /\ ~(ret.op = "fetchDisbursementsListServer" /\ ret.result.upstream # NotCalled)
        /\ ~(ret.op = "transactionsPage" /\ ret.outcome.kind = "render")

\* C15: whenever the backend answers 401 to the bearer token of a locally valid
\* session, the session cookie is deleted and the client is sent to /login
C15_UpstreamRejectionClearsSession ==
    /\ (ret.op = "transactionsPage" /\ ret.upstream = "401") =>
            /\ ret.outcome = Redirect("/login")
            /\ readSessionCookie(jar) = UndefinedToken
    /\ (ret.op = "fetchDisbursementsListServer" /\ ret.result.upstream = "401") =>
            readSessionCookie(jar) = UndefinedToken
    /\ (ret.op = "createUser" /\ ret.response.upstream = "401") =>
            readSessionCookie(jar) = UndefinedToken

\* C14: logout returns without error whether or not a session cookie was there,
\* so also when called twice in a row, and a getSession that follows returns null
C14_LogoutIdempotent ==
    ret.op = "logout" =>
        /\ ret.kind = "return"
        /\ readSessionCookie(jar) = UndefinedToken
        /\ getSession(jar, now) = Null

C14_Witness ==
    /\ ret.op = "logout"
    /\ ~ret.hadCookie
    /\ getSession(jar, now) = Null

\* C17: when SESSION_SECRET is absent (unset or empty) the session module fails
\* to load, and no encode, decode or cookie operation of the server ever runs:
\* the only steps are the failed load and those of the clock and the client
C17_NoSecretNoOperation ==
    (env = Undefined \/ env = "") =>
        /\ sessionModule # "loaded"
        /\ ret.op \in {"init", "loadSessionModule", "tick", "tamper", "cookieExpires"}
        /\ ret.op = "loadSessionModule" => ret.kind = "throw"
        /\ written = {} \/ \E c \in written : c.value.claims.token = "t0"

C17_Witness ==
    /\ env \in {Undefined, ""}
    /\ sessionModule = "failed"
    /\ ret.op = "loadSessionModule"
    /\ ret.kind = "throw"

IsWildcard(entry) ==
    /\ Len(entry) >= 2
    /\ entry[Len(entry) - 1] = "."
    /\ entry[Len(entry)] = "*"

\* the resource a wildcard entry covers
Resource(entry) == [i \in 1..(Len(entry) - 2) |-> entry[i]]

\* the permission is the resource itself or the resource, a dot and anything
Under(permission, resource) ==
    \/ permission = resource
    \/ /\ Len(permission) > Len(resource)
       /\ \A i \in 1..Len(resource) : permission[i] = resource[i]
       /\ permission[Len(resource) + 1] = "."

\* C18: a role without the global wildcard whose list has "resource.*" passes
\* hasPermission for "resource" and for every permission that starts with
\* "resource."; a wildcard entry grants nothing under another resource, not
\* even one whose name extends or is extended by its own ("users.*" does not
\* grant "userss.view", "userss.*" does not grant "users.view")
C18_WildcardCoversItsResourceOnly ==
    /\ ret.op = "hasPermission" /\ ret.role \in DOMAIN ROLE_PERMISSIONS
         /\ PERMISSIONS.SYSTEM.ALL \notin Range(ROLE_PERMISSIONS[ret.role]) =>
            ret.result =
                \/ ret.permission \in Range(ROLE_PERMISSIONS[ret.role])
                \/ \E entry \in Range(ROLE_PERMISSIONS[ret.role]) :
                       IsWildcard(entry) /\ Under(ret.permission, Resource(entry))
    /\ ret.op = "wildcardMatch" =>
            ret.result = (IsWildcard(ret.p) /\ Under(ret.permission, Resource(ret.p)))

C18_Witness ==
    /\ ret.op = "hasPermission"
    /\ ret.role = "Administrator"
    /\ ret.permission = <<"u", "s", "e", "r", "s">>
    /\ ret.result

\* C19: a role whose list contains "*" passes hasPermission for every
\* permission string, declared or not, the empty string included
C19_GlobalWildcardGrantsAll ==
    ( /\ ret.op = "hasPermission"
      /\ ret.role \in DOMAIN ROLE_PERMISSIONS
      /\ \E i \in DOMAIN ROLE_PERMISSIONS[ret.role] :
             ROLE_PERMISSIONS[ret.role][i] = <<"*">> )
    => ret.result

C19_Witness ==
    /\ ret.op = "hasPermission"
    /\ ret.role = "Super Administrator"
    /\ ret.permission = <<>>
    /\ ret.result

C21_UnknownRoleIsRefused ==
    (ret.op = "hasPermission" /\ ret.role \notin DOMAIN ROLE_PERMISSIONS) =>
        /\ ret.kind = "return"
        /\ ~ret.result

\* C22: the message the login action returns tells the kinds of failure apart:
\* a network or timeout failure gives one of the connectivity messages, a
\* failure the backend reported gives the message login raised for it, and
\* neither is shown as the other
C22_FailureKindsKeptApart ==
    ( /\ ret.op = "loginAction"
      /\ ret.form = "valid"
      /\ ret.authLogin.kind = "throw" ) =>
        /\ ret.state.kind = "message"
        /\ ret.authLogin.origin = "authentication" =>
               /\ ret.state.message = ret.authLogin.message
               /\ ret.state.message \notin
                      {TimeoutMessage, UnreachableMessage, NetworkMessage}
        /\ ret.authLogin.origin \in {"network", "timeout"} =>
               ret.state.message \in
                   {TimeoutMessage, UnreachableMessage, NetworkMessage}

C24_RedirectsSettle ==
    /\ \A path \in PagePaths : follow(path, jar, now, MaxHops) = Rendered
    /\ ~( /\ navigate("/login", jar, now) = "/dashboard"
          /\ navigate("/dashboard", jar, now) = "/login" )

C24_Witness ==
    /\ ret.op = "proxy"
    /\ ret.path = "/login"
    /\ ret.response = Redirect("/dashboard")
    /\ "expiresAt" \in DOMAIN getSession(jar, now).payload
    /\ getSession(jar, now).payload.expiresAt = now + 1
    /\ follow("/login", jar, now, MaxHops) = Rendered

\* C25: no API route handler and no protected procedure sends the session's
\* bearer token to the backend when the payload's expiresAt has passed: such a
\* request is refused without a call to the backend
C25_ExpiredSessionNotForwarded ==
    [][ ( \/ ret'.op = "createUser" /\ ret'.response.upstream # NotCalled
          \/ ret'.op = "transactionsPage" /\ ret'.upstream # NotCalled )
        => ~PayloadExpired(getSession(jar, now).payload, now) ]_vars

\* C26: the password-change route leaves the session cookie as it is on every
\* path that does not succeed (401 without a session, 400 for a bad body, the
\* backend's refusal or failure) and writes a new session only after the
\* backend accepted the change, and then only when the session had
\* requirePasswordChange set
C26_PasswordChangeWritesOnlyOnSuccess ==
    [][ ret'.op = "changePassword" =>
          /\ ret'.status # 200 => (jar' = jar /\ written' = written)
          /\ jar' # jar =>
                /\ ret'.status = 200
                /\ getSession(jar, now).kind = "payload"
                /\ TruthyBool(getSession(jar, now).payload, "requirePasswordChange")
          /\ ( /\ ret'.status = 200
               /\ ~TruthyBool(getSession(jar, now).payload, "requirePasswordChange") )
             => jar' = jar ]_vars

C26_Witness ==
    /\ ret.op = "changePassword"
    /\ ret.status = 422
    /\ MustChangePassword

\* C27: for one query key (page p, per_page n) the page the server prefetch
\* stores and the page the client queryFn obtains through /api/disbursements
\* hold the same backend page, and both report pageNumber p
C27_PrefetchMatchesClient ==
    ret.op = "refetched" =>
        /\ ret.server.data = ret.client.data
        /\ ret.server.pageNumber = ret.page
        /\ ret.client.pageNumber = ret.page

\* C28: the page-ahead effect of either list component issues prefetches only
\* for the pages p+1 and p+2 that exist and are not cached, p being the page
\* the table state requests, and no prefetch of an earlier page stays pending
C28_PrefetchAheadOfRequestedPage ==
    ret.op \in {"mount", "setPagination", "fetchArrives"} =>
        /\ ret.issued \subseteq pagesAhead(ret.page) \ ret.cache
        /\ ret.prefetching \subseteq pagesAhead(ret.page)

\* the items of the given positions, in the order of the list
Pick(items, positions) ==
    LET chosen(i) == i \in positions
        RECURSIVE at(_)
        at(i) == IF i > Len(items) THEN <<>>
                 ELSE IF chosen(i) THEN <<items[i]>> \o at(i + 1)
                 ELSE at(i + 1)
    IN  at(1)

Unrestricted(item) == DOMAIN item \cap {"permission", "permissions"} = {}

\* some role of the list grants the permission
Grants(roles, permission) ==
    \E i \in DOMAIN roles : hasPermission(roles[i], permission)

\* the roles satisfy the requirement of the item: its single permission when
\* it has one, else some of the listed ones, or all of them under requireAll
Satisfies(roles, item) ==
    IF "permission" \in DOMAIN item THEN Grants(roles, item.permission)
    ELSE IF "requireAll" \in DOMAIN item /\ item.requireAll
        THEN \A p \in Range(item.permissions) : Grants(roles, p)
    ELSE \E p \in Range(item.permissions) : Grants(roles, p)

Authenticated(session) ==
    /\ "token" \in DOMAIN session
    /\ session.token # ""
    /\ "roles" \in DOMAIN session

\* C30: the reset-password route admits an authenticated session exactly when
\* hasAnyPermission(session.roles, "users.reset_password") holds under the
\* static role table: 403 without a backend call when it does not, and the
\* request goes to the backend when it does
C30_ResetPasswordGate ==
    (ret.op = "resetPassword" /\ Authenticated(ret.session)) =>
        IF hasAnyPermission(ret.session.roles, PERMISSIONS.USERS.RESET_PASSWORD)
        THEN ret.response.upstream = ret.session.token
        ELSE /\ ret.response.status = "403"
             /\ ret.response.upstream = NotCalled

\* a session of two roles, one of them holding users.* and none the global
\* wildcard, is admitted and its request answered by the backend
C30_Witness ==
    /\ ret.op = "resetPassword"
    /\ Authenticated(ret.session)
    /\ Len(ret.session.roles) = 2
    /\ "Administrator" \in Range(ret.session.roles)
    /\ "Super Administrator" \notin Range(ret.session.roles)
    /\ ret.response.status = "200"

====
